---- MODULE Spec2Model ----
(***************************************************************************)
(* Order-book snapshot pollers with a Google-Drive-synchronised CSV        *)
(* ledger: poll_and_sync.py (download -> poll -> append -> upload) and     *)
(* multi_poll_orderbook.py (poll -> append to a local CSV).                *)
(*                                                                         *)
(* Text (symbols, CSV fields, file contents) is a sequence of one-         *)
(* character strings, so that str.replace, the csv writer's quoting and    *)
(* line terminator, and the append to a file are computed, not assumed.    *)
(***************************************************************************)
EXTENDS Naturals, Sequences, FiniteSets, TLC

\* ------------------------------------------------------------------------
\* Bounds of the model
\* ------------------------------------------------------------------------

\* number of successive runs of a program in one behaviour
MaxRuns == 2

\* longest wanted list drawn when the symbol filter is explored on its own
MaxWantedLen == 3

\* ------------------------------------------------------------------------
\* Text
\* ------------------------------------------------------------------------

CR == "\r"

LF == "\n"

COMMA == ","

DQUOTE == "\""

Digit(d) == <<"0", "1", "2", "3", "4", "5", "6", "7", "8", "9">>[d + 1]

RECURSIVE Digits(_)
Digits(n) == IF n < 10 THEN <<Digit(n)>> ELSE Digits(n \div 10) \o <<Digit(n % 10)>>

\* str.replace(old, new) for one-character old and new
Replace(s, old, new) == [i \in 1..Len(s) |-> IF s[i] = old THEN new ELSE s[i]]

\* ------------------------------------------------------------------------
\* Python values that reach the csv writer: None, a float, a str
\* ------------------------------------------------------------------------

None == [tag |-> "None"]

Float(p) == [tag |-> "float", val |-> p]

Str(s) == [tag |-> "str", val |-> s]

\* repr of a float with an integral value: "0.0", "1.0", ...
FloatStr(p) == Digits(p) \o <<".", "0">>

\* datetime.utcnow().isoformat() at the t-th tick of the clock; the text
\* starts with the digits of the year and holds no separator or quote
Isoformat(t) == <<"2", "0", "2", "5", "T">> \o Digits(t)

\* ------------------------------------------------------------------------
\* Configuration
\* ------------------------------------------------------------------------

REMOTE_FILENAME == "orderbook_snapshots.csv"

SUI_USDT == <<"S", "U", "I", "/", "U", "S", "D", "T">>

WBTC_USDT == <<"W", "B", "T", "C", "/", "U", "S", "D", "T">>

STETH_USDT == <<"S", "T", "E", "T", "H", "/", "U", "S", "D", "T">>

TRX_USDT == <<"T", "R", "X", "/", "U", "S", "D", "T">>

ADA_USDT == <<"A", "D", "A", "/", "U", "S", "D", "T">>

DOGE_USDT == <<"D", "O", "G", "E", "/", "U", "S", "D", "T">>

BNB_USDT == <<"B", "N", "B", "/", "U", "S", "D", "T">>

SOL_USDT == <<"S", "O", "L", "/", "U", "S", "D", "T">>

XRP_USDT == <<"X", "R", "P", "/", "U", "S", "D", "T">>

BTC_USDT == <<"B", "T", "C", "/", "U", "S", "D", "T">>

WANTED_SYMBOLS == <<SUI_USDT, WBTC_USDT, STETH_USDT, TRX_USDT, ADA_USDT,
                    DOGE_USDT, BNB_USDT, SOL_USDT, XRP_USDT, BTC_USDT>>

\* the wanted list the runs of the two programs are explored with: the
\* leading symbols of WANTED_SYMBOLS
TrackedSymbols == <<WANTED_SYMBOLS[1], WANTED_SYMBOLS[2]>>

\* a symbol the exchange lists and the programs do not want
ETH_USDT == <<"E", "T", "H", "/", "U", "S", "D", "T">>

\* exchange.symbols after load_markets() is any subset of the symbols the
\* exchange can list: the tracked ones in the runs of the programs
Listed == {TrackedSymbols[i] : i \in 1..Len(TrackedSymbols)}

\* the value of GDRIVE_FOLDER_ID, and another folder of the same Drive
FOLDER_ID == "folder"

OTHER_FOLDER == "elsewhere"

\* ------------------------------------------------------------------------
\* csv.writer (default dialect: delimiter ',', quotechar '"', doublequote,
\* QUOTE_MINIMAL, lineterminator '\r\n')
\* ------------------------------------------------------------------------

CsvText(v) ==
    IF v.tag = "float" THEN FloatStr(v.val)
    ELSE IF v.tag = "None" THEN <<>>
    ELSE v.val

NeedsQuote(s) == \E i \in 1..Len(s) : s[i] \in {COMMA, DQUOTE, CR, LF}

RECURSIVE DoubleQuotes(_)
DoubleQuotes(s) ==
    IF s = <<>> THEN <<>>
    ELSE (IF Head(s) = DQUOTE THEN <<DQUOTE, DQUOTE>> ELSE <<Head(s)>>)
         \o DoubleQuotes(Tail(s))

CsvField(v) ==
    LET s == CsvText(v)
    IN  IF NeedsQuote(s) THEN <<DQUOTE>> \o DoubleQuotes(s) \o <<DQUOTE>> ELSE s

RECURSIVE JoinFields(_)
JoinFields(fields) ==
    IF fields = <<>> THEN <<>>
    ELSE IF Len(fields) = 1 THEN CsvField(fields[1])
    ELSE CsvField(fields[1]) \o <<COMMA>> \o JoinFields(Tail(fields))

\* writer.writerow(fields): the text written to the file
WriteRow(fields) == JoinFields(fields) \o <<CR, LF>>

\* ------------------------------------------------------------------------
\* Files on the local disk
\* ------------------------------------------------------------------------

NoFile == [exists |-> FALSE, data |-> <<>>]

FileOf(text) == [exists |-> TRUE, data |-> text]

\* the download with the file opened in mode "ab"
DownloadedInAppendMode(file, media) == FileOf(file.data \o media)

\* download_remote_csv: io.FileIO(local_path, "wb") truncates or creates the
\* file, then the chunks of the media are written to it
Downloaded(file, media) == FileOf(media)

\* ------------------------------------------------------------------------
\* Symbol filter of init_exchange_and_filter_symbols
\* ------------------------------------------------------------------------

\* the filter with repeated wanted symbols dropped
RECURSIVE FilterValidDeduplicated(_, _)
FilterValidDeduplicated(wantedList, availableSet) ==
    IF wantedList = <<>> THEN <<>>
    ELSE (IF /\ Head(wantedList) \in availableSet
             /\ \A i \in 1..Len(Tail(wantedList)) : Tail(wantedList)[i] # Head(wantedList)
          THEN <<Head(wantedList)>> ELSE <<>>)
         \o FilterValidDeduplicated(Tail(wantedList), availableSet)

RECURSIVE FilterValid(_, _)
FilterValid(wantedList, availableSet) ==
    IF wantedList = <<>> THEN <<>>
    ELSE (IF Head(wantedList) \in availableSet THEN <<Head(wantedList)>> ELSE <<>>)
         \o FilterValid(Tail(wantedList), availableSet)

\* the symbols reported with [SKIP], in the order of the reports
RECURSIVE FilterSkipped(_, _)
FilterSkipped(wantedList, availableSet) ==
    IF wantedList = <<>> THEN <<>>
    ELSE (IF Head(wantedList) \in availableSet THEN <<>> ELSE <<Head(wantedList)>>)
         \o FilterSkipped(Tail(wantedList), availableSet)

\* ------------------------------------------------------------------------
\* fetch_best_bid_ask
\* ------------------------------------------------------------------------

\* the outcome of exchange.fetch_order_book(symbol, limit=1): it raises, or
\* it returns an order book with at most one [price, amount] level a side
Raised == [raised |-> TRUE, bids |-> <<>>, asks |-> <<>>]

Levels(prices) == {<<>>} \cup {<<<<p, 1>>>> : p \in prices}

OrderBooks(prices) ==
    {[raised |-> FALSE, bids |-> b, asks |-> a] : b \in Levels(prices), a \in Levels(prices)}

Responses(prices) == {Raised} \cup OrderBooks(prices)

\* a fetch that returns a pair only when the book has both sides
FetchBestBidAskCoupled(ob) ==
    IF ob.raised \/ ob.bids = <<>> \/ ob.asks = <<>> THEN <<None, None>>
    ELSE <<Float(ob.bids[1][1]), Float(ob.asks[1][1])>>

\* the (bid, ask) pair returned for a response
FetchBestBidAsk(ob) ==
    IF ob.raised THEN <<None, None>>
    ELSE <<IF ob.bids # <<>> THEN Float(ob.bids[1][1]) ELSE None,
           IF ob.asks # <<>> THEN Float(ob.asks[1][1]) ELSE None>>

\* ------------------------------------------------------------------------
\* append_row_to_local_csv / append_row_to_csv
\* ------------------------------------------------------------------------

TIMESTAMP_UTC == <<"t", "i", "m", "e", "s", "t", "a", "m", "p", "_", "u", "t", "c">>

BID_SUFFIX == <<"_", "b", "i", "d">>

ASK_SUFFIX == <<"_", "a", "s", "k">>

RECURSIVE HeaderColumns(_)
HeaderColumns(symbols) ==
    IF symbols = <<>> THEN <<>>
    ELSE LET base == Replace(Head(symbols), "/", "_")
         IN  <<Str(base \o BID_SUFFIX), Str(base \o ASK_SUFFIX)>>
             \o HeaderColumns(Tail(symbols))

Header(symbols) == <<Str(TIMESTAMP_UTC)>> \o HeaderColumns(symbols)

\* the row with the ask of each symbol written before its bid
RECURSIVE FlattenedAskFirst(_)
FlattenedAskFirst(cols) ==
    IF cols = <<>> THEN <<>>
    ELSE LET bid == Head(cols)[1]
             ask == Head(cols)[2]
         IN  <<IF ask # None THEN ask ELSE Str(<<>>),
               IF bid # None THEN bid ELSE Str(<<>>)>>
             \o FlattenedAskFirst(Tail(cols))

\* the row built with "bid if bid else ''": a price of zero is falsy
RECURSIVE FlattenedByTruth(_)
FlattenedByTruth(cols) ==
    IF cols = <<>> THEN <<>>
    ELSE LET bid == Head(cols)[1]
             ask == Head(cols)[2]
         IN  <<IF bid # None /\ bid # Float(0) THEN bid ELSE Str(<<>>),
               IF ask # None /\ ask # Float(0) THEN ask ELSE Str(<<>>)>>
             \o FlattenedByTruth(Tail(cols))

RECURSIVE Flattened(_)
Flattened(cols) ==
    IF cols = <<>> THEN <<>>
    ELSE LET bid == Head(cols)[1]
             ask == Head(cols)[2]
         IN  <<IF bid # None THEN bid ELSE Str(<<>>),
               IF ask # None THEN ask ELSE Str(<<>>)>>
             \o Flattened(Tail(cols))

Row(timestamp, cols) == <<Str(timestamp)>> \o Flattened(cols)

\* the append with the header written on every call
AppendAlwaysWritesHeader(file, timestamp, symbols, cols) ==
    FileOf(file.data \o WriteRow(Header(symbols)) \o WriteRow(Row(timestamp, cols)))

\* the append with the file opened in mode "w"
AppendTruncates(file, timestamp, symbols, cols) ==
    FileOf((IF ~file.exists THEN WriteRow(Header(symbols)) ELSE <<>>)
           \o WriteRow(Row(timestamp, cols)))

\* the append that rewrites the first line of an existing file whose
\* header was built from another symbol list
AppendReconcilesHeader(file, timestamp, symbols, cols) ==
    LET header == WriteRow(Header(symbols))
        old == file.data
        first == IF \E i \in 1..Len(old) : old[i] = LF
                 THEN CHOOSE i \in 1..Len(old) :
                          old[i] = LF /\ \A j \in 1..(i - 1) : old[j] # LF
                 ELSE Len(old)
    IN  FileOf((IF ~file.exists \/ SubSeq(old, 1, first) = header
                THEN (IF ~file.exists THEN header ELSE old)
                ELSE header \o SubSeq(old, first + 1, Len(old)))
               \o WriteRow(Row(timestamp, cols)))

\* the file after open(path, "a") and the writes, given the file before
AppendRowToCsv(file, timestamp, symbols, cols) ==
    LET file_exists == file.exists
    IN  FileOf(file.data
               \o (IF ~file_exists THEN WriteRow(Header(symbols)) ELSE <<>>)
               \o WriteRow(Row(timestamp, cols)))

\* ------------------------------------------------------------------------
\* The Drive folder: the objects of the store in the order files().list
\* returns them
\* ------------------------------------------------------------------------

\* find_remote_file_id returns None
NoId == 0

RemoteObject(name, parent, trashed, data) ==
    [id |-> NoId, name |-> name, parents |-> {parent}, trashed |-> trashed, data |-> data]

\* the query "name = filename and folder_id in parents and trashed = false"
Matches(o, filename, folder_id) ==
    o.name = filename /\ folder_id \in o.parents /\ ~o.trashed

FilesList(st, filename, folder_id) ==
    SelectSeq(st, LAMBDA o : Matches(o, filename, folder_id))

\* the lookup with a query that leaves out "'{folder_id}' in parents" and
\* searches the root of the drive
FindRemoteFileIdInRoot(st, filename, folder_id) ==
    LET files == FilesList(st, filename, "root")
    IN  IF files # <<>> THEN files[1].id ELSE NoId

FindRemoteFileId(st, filename, folder_id) ==
    LET files == FilesList(st, filename, folder_id)
    IN  IF files # <<>> THEN files[1].id ELSE NoId

\* the media of the object file_id
GetMediaData(st, file_id) == st[CHOOSE i \in 1..Len(st) : st[i].id = file_id].data

\* an update that lands on the first object of the folder
FilesUpdateFirst(st, file_id, data) ==
    [i \in 1..Len(st) |-> IF i = 1 THEN [st[i] EXCEPT !.data = data] ELSE st[i]]

\* an update that adds the media to the content the object already has
FilesUpdateAppends(st, file_id, data) ==
    [i \in 1..Len(st) |->
        IF st[i].id = file_id THEN [st[i] EXCEPT !.data = st[i].data \o data]
        ELSE st[i]]

FilesUpdate(st, file_id, data) ==
    [i \in 1..Len(st) |-> IF st[i].id = file_id THEN [st[i] EXCEPT !.data = data] ELSE st[i]]

\* a create that sends the metadata without the media body
FilesCreateWithoutMedia(st, name, parent, data) ==
    Append(st, [RemoteObject(name, parent, FALSE, <<>>) EXCEPT !.id = Len(st) + 1])

FilesCreate(st, name, parent, data) ==
    Append(st, [RemoteObject(name, parent, FALSE, data) EXCEPT !.id = Len(st) + 1])

\* upload that ignores the id of the lookup and always creates
UploadAlwaysCreates(st, data, folder_id, existing_file_id) ==
    FilesCreate(st, REMOTE_FILENAME, folder_id, data)

UploadCsvToDrive(st, data, folder_id, existing_file_id) ==
    IF existing_file_id # NoId
    THEN FilesUpdate(st, existing_file_id, data)
    ELSE FilesCreate(st, REMOTE_FILENAME, folder_id, data)

\* ------------------------------------------------------------------------
\* State
\* ------------------------------------------------------------------------

VARIABLES
    store,          \* the Drive objects
    local,          \* the ledger file on the local disk
    wanted,         \* WANTED_SYMBOLS of the running program
    pc,             \* position of the running program in its main()
    runs,           \* number of the current run; the clock of utcnow()
    remote_id,      \* main: result of the lookup
    available,      \* exchange.symbols
    valid_symbols,  \* the filtered symbol list
    skipped,        \* the symbols reported as skipped
    data_cols,      \* the (bid, ask) pairs fetched so far
    responses,      \* what the provider answered to each call of this run
    calls,          \* symbols fetch_order_book was called with in this run
    storeOps,       \* Drive requests of this run: list, get_media, update, create
    steps,          \* protocol steps of this run that ran to completion
    failedAt,       \* the step that ended the run in failure, or ""
    store0,         \* the Drive objects when the current run started
    local0,         \* the local file when the current run started
    storeInit,      \* the Drive objects before the first run
    localInit,      \* the local file before the first run
    okRuns,         \* number of runs that ended in success so far
    peer            \* a second run of the program on another machine, or NoPeer

vars == <<store, local, wanted, pc, runs, remote_id, available, valid_symbols,
          skipped, data_cols, responses, calls, storeOps, steps, failedAt,
          store0, local0, storeInit, localInit, okRuns, peer>>

runVars == <<remote_id, available, valid_symbols, skipped, data_cols, responses,
             calls, storeOps, steps>>

history == <<store0, local0, storeInit, localInit, okRuns>>

\* ------------------------------------------------------------------------
\* Initial states
\* ------------------------------------------------------------------------

\* the prices an order book can show in the runs of the two programs
RunPrices == {0}

\* the provider's answers the sync protocol is explored with: the call
\* raises, a book with a bid only, a book with both sides
SyncResponses ==
    {Raised,
     [raised |-> FALSE, bids |-> <<<<0, 1>>>>, asks |-> <<>>],
     [raised |-> FALSE, bids |-> <<<<0, 1>>>>, asks |-> <<<<0, 1>>>>]}

OldRow == WriteRow(Row(Isoformat(0), <<<<Float(0), None>>, <<None, Float(0)>>>>))

HeaderOnly == WriteRow(Header(TrackedSymbols))

HeaderAndRow == HeaderOnly \o OldRow

\* ledgers that predate header tracking: data rows only
Legacy1 == OldRow

Legacy2 == OldRow \o OldRow

\* an unrelated leftover file
StaleText == <<"s", "t", "a", "l", "e", CR, LF>>

WithIds(st) == [i \in 1..Len(st) |-> [st[i] EXCEPT !.id = i]]

Ledger(data) == RemoteObject(REMOTE_FILENAME, FOLDER_ID, FALSE, data)

\* objects the lookup must pass over: another name, another folder, trashed
Decoys ==
    <<RemoteObject("notes.csv", FOLDER_ID, FALSE, StaleText),
      RemoteObject(REMOTE_FILENAME, OTHER_FOLDER, FALSE, Legacy1),
      RemoteObject(REMOTE_FILENAME, FOLDER_ID, TRUE, HeaderOnly)>>

InitStores ==
    {WithIds(st) : st \in
        {<<>>, Decoys, Decoys \o <<Ledger(HeaderAndRow)>>,
         <<Ledger(HeaderOnly)>>, <<Ledger(Legacy2)>>,
         <<Ledger(HeaderAndRow), Ledger(Legacy1)>>}}

InitRun ==
    /\ runs = 1
    /\ remote_id = NoId
    /\ available = {}
    /\ valid_symbols = <<>>
    /\ skipped = <<>>
    /\ data_cols = <<>>
    /\ responses = <<>>
    /\ calls = <<>>
    /\ storeOps = <<>>
    /\ steps = <<>>
    /\ failedAt = ""
    /\ store0 = store
    /\ local0 = local
    /\ storeInit = store
    /\ localInit = local
    /\ okRuns = 0

\* no second run is in progress
NoPeer == [pc |-> "none"]

\* poll_and_sync.py is started
Init ==
    /\ peer = NoPeer
    /\ store \in InitStores
    /\ local \in {NoFile, FileOf(StaleText)}
    /\ wanted = TrackedSymbols
    /\ pc = "main"
    /\ InitRun

\* ------------------------------------------------------------------------
\* Steps shared by the programs
\* ------------------------------------------------------------------------

\* the except branch of the download without its sys.exit(1)
FailWithoutExit(step) ==
    /\ pc' = IF step = "download" THEN "init_exchange" ELSE "failed"
    /\ failedAt' = step

\* a credential failure that is only reported, the run going on to the lookup
FailCredentialLate(step) ==
    /\ pc' = IF step \in {"sa_json_not_set", "sa_json_parse"}
             THEN "find_remote_file_id" ELSE "failed"
    /\ failedAt' = step

Fail(step) ==
    /\ pc' = "failed"
    /\ failedAt' = step

\* the filter without its "if not valid: sys.exit(1)"
InitExchangeWithoutEmptyCheck(next, listed) ==
    \E avail \in SUBSET listed :
        /\ available' = avail
        /\ valid_symbols' = FilterValid(wanted, avail)
        /\ skipped' = FilterSkipped(wanted, avail)
        /\ pc' = next
        /\ steps' = Append(steps, "resolve")
        /\ UNCHANGED failedAt

\* init_exchange_and_filter_symbols
InitExchangeAndFilterSymbols(next, listed) ==
    \/ \* ccxt or load_markets() raises: sys.exit(1)
       /\ Fail("load_markets")
       /\ UNCHANGED <<available, valid_symbols, skipped, steps>>
    \/ \E avail \in SUBSET listed :
          LET valid == FilterValid(wanted, avail)
          IN  /\ available' = avail
              /\ valid_symbols' = valid
              /\ skipped' = FilterSkipped(wanted, avail)
              /\ IF valid = <<>>
                 THEN Fail("no_valid_symbols") /\ UNCHANGED steps
                 ELSE /\ pc' = next
                      /\ steps' = Append(steps, "resolve")
                      /\ UNCHANGED failedAt

\* the loop with a fetch whose exception is not caught
FetchLoopStepRaises(next, answers) ==
    /\ Len(data_cols) < Len(valid_symbols)
    /\ \E ob \in answers :
          /\ calls' = Append(calls, valid_symbols[Len(data_cols) + 1])
          /\ responses' = Append(responses, ob)
          /\ data_cols' = IF ob.raised THEN data_cols
                          ELSE Append(data_cols, FetchBestBidAsk(ob))
          /\ pc' = IF ob.raised THEN "failed"
                   ELSE IF Len(data_cols) + 1 = Len(valid_symbols) THEN next ELSE pc

\* one turn of "for sym in valid_symbols: data_cols.append(fetch_best_bid_ask(exchange, sym))"
FetchLoopStep(next, answers) ==
    /\ Len(data_cols) < Len(valid_symbols)
    /\ \E ob \in answers :
          /\ calls' = Append(calls, valid_symbols[Len(data_cols) + 1])
          /\ responses' = Append(responses, ob)
          /\ data_cols' = Append(data_cols, FetchBestBidAsk(ob))
    /\ pc' = IF Len(data_cols) + 1 = Len(valid_symbols) THEN next ELSE pc

\* the append of one row; open() or a write can raise, which nothing catches
AppendStep(next) ==
    \/ /\ local' = AppendRowToCsv(local, Isoformat(runs), valid_symbols, data_cols)
       /\ pc' = next
       /\ steps' = Append(steps, "append")
       /\ UNCHANGED failedAt
    \/ \* open(path, "a") raises: the file is as it was
       /\ Fail("append")
       /\ UNCHANGED <<local, steps>>
    \/ \* a write raises after open() created the file
       /\ Fail("append")
       /\ local' = FileOf(local.data)
       /\ UNCHANGED steps

\* ------------------------------------------------------------------------
\* poll_and_sync.main
\* ------------------------------------------------------------------------

\* 1) GDRIVE_FOLDER_ID is set, or the run exits
CheckFolderId ==
    /\ pc = "main"
    /\ \/ pc' = "get_drive_service" /\ UNCHANGED failedAt
       \/ Fail("folder_id")
    /\ UNCHANGED <<store, local, wanted, runs, runVars, history, peer>>

\* 2) get_drive_service: GDRIVE_SA_JSON is set and parses, or the run exits
GetDriveService ==
    /\ pc = "get_drive_service"
    /\ \/ pc' = "find_remote_file_id" /\ UNCHANGED failedAt
       \/ Fail("sa_json_not_set")
       \/ Fail("sa_json_parse")
    /\ UNCHANGED <<store, local, wanted, runs, runVars, history, peer>>

\* 3) find_remote_file_id; execute() can raise, which nothing catches
FindRemoteFile ==
    /\ pc = "find_remote_file_id"
    /\ storeOps' = Append(storeOps, [op |-> "list", id |-> NoId])
    /\ \/ /\ remote_id' = FindRemoteFileId(store, REMOTE_FILENAME, FOLDER_ID)
          /\ pc' = "rehydrate"
          /\ steps' = Append(steps, "lookup")
          /\ UNCHANGED failedAt
       \/ /\ Fail("lookup")
          /\ UNCHANGED <<remote_id, steps>>
    /\ UNCHANGED <<store, local, wanted, runs, available, valid_symbols, skipped,
                   data_cols, responses, calls, history, peer>>

\* 4) remote_id is set: download_remote_csv, the run exits when it raises
DownloadRemoteCsv ==
    /\ pc = "rehydrate"
    /\ remote_id # NoId
    /\ \/ /\ local' = Downloaded(local, GetMediaData(store, remote_id))
          /\ storeOps' = Append(storeOps, [op |-> "get_media", id |-> remote_id])
          /\ pc' = "init_exchange"
          /\ steps' = Append(steps, "download")
          /\ UNCHANGED failedAt
       \/ \* io.FileIO(local_path, "wb") raises
          /\ Fail("download")
          /\ UNCHANGED <<local, storeOps, steps>>
       \/ \* next_chunk() raises: the file was truncated by the open
          /\ Fail("download")
          /\ local' = FileOf(<<>>)
          /\ storeOps' = Append(storeOps, [op |-> "get_media", id |-> remote_id])
          /\ UNCHANGED steps
    /\ UNCHANGED <<store, wanted, runs, remote_id, available, valid_symbols, skipped,
                   data_cols, responses, calls, history, peer>>

\* 4) remote_id is None: a local copy is removed
RemoveLocalCopy ==
    /\ pc = "rehydrate"
    /\ remote_id = NoId
    /\ local' = IF local.exists THEN NoFile ELSE local
    /\ pc' = "init_exchange"
    /\ steps' = Append(steps, "remove")
    /\ UNCHANGED <<store, wanted, runs, remote_id, available, valid_symbols, skipped,
                   data_cols, responses, calls, storeOps, failedAt, history, peer>>

\* 5) init_exchange_and_filter_symbols
SyncInitExchange ==
    /\ pc = "init_exchange"
    /\ InitExchangeAndFilterSymbols("fetch", Listed)
    /\ UNCHANGED <<store, local, wanted, runs, remote_id, data_cols, responses, calls,
                   storeOps, history, peer>>

\* 6) the fetch loop
SyncFetch ==
    /\ pc = "fetch"
    /\ FetchLoopStep("append", SyncResponses)
    /\ UNCHANGED <<store, local, wanted, runs, remote_id, available, valid_symbols,
                   skipped, storeOps, steps, failedAt, history, peer>>

\* 7) append_row_to_local_csv
SyncAppend ==
    /\ pc = "append"
    /\ AppendStep("upload")
    /\ UNCHANGED <<store, wanted, runs, remote_id, available, valid_symbols, skipped,
                   data_cols, responses, calls, storeOps, history, peer>>

\* 8) upload_csv_to_drive inside try/except: update or create, or exit
SyncUpload ==
    /\ pc = "upload"
    /\ \/ /\ store' = UploadCsvToDrive(store, local.data, FOLDER_ID, remote_id)
          /\ storeOps' = Append(storeOps,
                 IF remote_id # NoId
                 THEN [op |-> "update", id |-> remote_id]
                 ELSE [op |-> "create", id |-> Len(store) + 1])
          /\ steps' = Append(steps, "upload")
          /\ pc' = "done"
          /\ okRuns' = okRuns + 1
          /\ UNCHANGED failedAt
       \/ \* MediaFileUpload or execute() raises: nothing was stored
          /\ Fail("upload")
          /\ UNCHANGED <<store, storeOps, steps, okRuns>>
    /\ UNCHANGED <<local, wanted, runs, remote_id, available, valid_symbols, skipped,
                   data_cols, responses, calls, store0, local0, storeInit, localInit,
                   peer>>

\* the scheduler starts the program again after it has ended
StartNextRun(entry) ==
    /\ pc \in {"done", "failed"}
    /\ runs < MaxRuns
    /\ runs' = runs + 1
    /\ pc' = entry
    /\ failedAt' = ""
    /\ remote_id' = NoId
    /\ available' = {}
    /\ valid_symbols' = <<>>
    /\ skipped' = <<>>
    /\ data_cols' = <<>>
    /\ responses' = <<>>
    /\ calls' = <<>>
    /\ storeOps' = <<>>
    /\ steps' = <<>>
    /\ store0' = store
    /\ local0' = local
    /\ UNCHANGED <<store, local, wanted, storeInit, localInit, okRuns, peer>>

SyncNextRun == StartNextRun("main")

Next ==
    \/ CheckFolderId
    \/ GetDriveService
    \/ FindRemoteFile
    \/ DownloadRemoteCsv
    \/ RemoveLocalCopy
    \/ SyncInitExchange
    \/ SyncFetch
    \/ SyncAppend
    \/ SyncUpload
    \/ SyncNextRun

Spec == Init /\ [][Next]_vars

\* ------------------------------------------------------------------------
\* multi_poll_orderbook.main: poll and append to the CSV of the workspace
\* ------------------------------------------------------------------------

\* the CSV the workspace holds when multi_poll_orderbook.py is first started
InitLocalFiles ==
    {NoFile, FileOf(<<>>), FileOf(HeaderOnly), FileOf(HeaderAndRow),
     FileOf(Legacy1), FileOf(Legacy2), FileOf(StaleText)}

InitPoll ==
    /\ peer = NoPeer
    /\ store = <<>>
    /\ local \in InitLocalFiles
    /\ wanted = TrackedSymbols
    /\ pc = "poll_main"
    /\ InitRun

\* 1) init_exchange_and_filter_symbols
PollInitExchange ==
    /\ pc = "poll_main"
    /\ InitExchangeAndFilterSymbols("poll_fetch", Listed)
    /\ UNCHANGED <<store, local, wanted, runs, remote_id, data_cols, responses, calls,
                   storeOps, history, peer>>

\* 2), 3) now_utc is taken, then the fetch loop runs
PollFetch ==
    /\ pc = "poll_fetch"
    /\ FetchLoopStep("poll_append", Responses(RunPrices))
    /\ UNCHANGED <<store, local, wanted, runs, remote_id, available, valid_symbols,
                   skipped, storeOps, steps, failedAt, history, peer>>

\* 4) append_row_to_csv
PollAppend ==
    /\ pc = "poll_append"
    /\ AppendStep("done")
    /\ okRuns' = IF pc' = "done" THEN okRuns + 1 ELSE okRuns
    /\ UNCHANGED <<store, wanted, runs, remote_id, available, valid_symbols, skipped,
                   data_cols, responses, calls, storeOps, store0, local0, storeInit,
                   localInit, peer>>

PollNextRun == StartNextRun("poll_main")

NextPoll ==
    \/ PollInitExchange
    \/ PollFetch
    \/ PollAppend
    \/ PollNextRun

SpecPoll == InitPoll /\ [][NextPoll]_vars

\* ------------------------------------------------------------------------
\* The symbol filter on its own: any wanted list against any listing
\* ------------------------------------------------------------------------

ResolveSymbols == {SUI_USDT, WBTC_USDT, ETH_USDT}

\* what the exchange can list: those, and a near miss of the first
ResolveListed == ResolveSymbols \cup {Replace(SUI_USDT, "/", "_")}

RECURSIVE SeqsUpTo(_, _)
SeqsUpTo(S, n) ==
    IF n = 0 THEN {<<>>}
    ELSE LET shorter == SeqsUpTo(S, n - 1)
         IN  shorter \cup {Append(q, x) : q \in shorter, x \in S}

InitResolve ==
    /\ peer = NoPeer
    /\ store = <<>>
    /\ local = NoFile
    /\ wanted \in SeqsUpTo(ResolveSymbols, MaxWantedLen)
    /\ pc = "poll_main"
    /\ InitRun

ResolveStep ==
    /\ pc = "poll_main"
    /\ InitExchangeAndFilterSymbols("poll_fetch", ResolveListed)
    /\ UNCHANGED <<store, local, wanted, runs, remote_id, data_cols, responses, calls,
                   storeOps, history, peer>>

NextResolve == ResolveStep

SpecResolve == InitResolve /\ [][NextResolve]_vars

\* ------------------------------------------------------------------------
\* multi_poll_orderbook.main, one run, against any order book
\* ------------------------------------------------------------------------

\* the prices 0..MaxPrice are what a level of these order books can show
MaxPrice == 1

FetchPrices == 0..MaxPrice

InitFetch ==
    /\ peer = NoPeer
    /\ store = <<>>
    /\ local \in {NoFile, FileOf(HeaderOnly)}
    /\ wanted = TrackedSymbols
    /\ pc = "poll_main"
    /\ InitRun

\* 2), 3) the fetch loop, the provider answering with any book or raising
FetchAnyBook ==
    /\ pc = "poll_fetch"
    /\ FetchLoopStep("poll_append", Responses(FetchPrices))
    /\ UNCHANGED <<store, local, wanted, runs, remote_id, available, valid_symbols,
                   skipped, storeOps, steps, failedAt, history, peer>>

NextFetch ==
    \/ PollInitExchange
    \/ FetchAnyBook
    \/ PollAppend

SpecFetch == InitFetch /\ [][NextFetch]_vars

\* ------------------------------------------------------------------------
\* Two runs of poll_and_sync.main, on two machines, against one folder
\* ------------------------------------------------------------------------

\* what a run of main() holds of its own: its position, its local disk,
\* its clock and its local variables
OwnState ==
    [pc |-> pc, local |-> local, local0 |-> local0, runs |-> runs,
     remote_id |-> remote_id, available |-> available,
     valid_symbols |-> valid_symbols, skipped |-> skipped,
     data_cols |-> data_cols, responses |-> responses, calls |-> calls,
     storeOps |-> storeOps, steps |-> steps, failedAt |-> failedAt]

Ended(p) == p \in {"done", "failed"}

\* both runs were started; the second one reads a later clock
InitRace ==
    /\ store \in {WithIds(<<>>), WithIds(<<Ledger(HeaderAndRow)>>)}
    /\ local = NoFile
    /\ wanted = TrackedSymbols
    /\ pc = "main"
    /\ InitRun
    /\ peer = [OwnState EXCEPT !.runs = 2]

\* the next step is taken by the other run: the two runs change places
OtherRunProceeds ==
    /\ peer.pc # "none"
    /\ ~Ended(peer.pc)
    /\ peer' = OwnState
    /\ pc' = peer.pc
    /\ local' = peer.local
    /\ local0' = peer.local0
    /\ runs' = peer.runs
    /\ remote_id' = peer.remote_id
    /\ available' = peer.available
    /\ valid_symbols' = peer.valid_symbols
    /\ skipped' = peer.skipped
    /\ data_cols' = peer.data_cols
    /\ responses' = peer.responses
    /\ calls' = peer.calls
    /\ storeOps' = peer.storeOps
    /\ steps' = peer.steps
    /\ failedAt' = peer.failedAt
    /\ UNCHANGED <<store, wanted, store0, storeInit, localInit, okRuns>>

NextRace ==
    \/ CheckFolderId
    \/ GetDriveService
    \/ FindRemoteFile
    \/ DownloadRemoteCsv
    \/ RemoveLocalCopy
    \/ SyncInitExchange
    \/ SyncFetch
    \/ SyncAppend
    \/ SyncUpload
    \/ OtherRunProceeds

SpecRace == InitRace /\ [][NextRace]_vars

\* ------------------------------------------------------------------------
\* eth_poll_orderbook.main: one pair, one CSV of three columns
\* ------------------------------------------------------------------------

ETH_USD == <<"E", "T", "H", "/", "U", "S", "D">>

BEST_BID == <<"b", "e", "s", "t", "_", "b", "i", "d">>

BEST_ASK == <<"b", "e", "s", "t", "_", "a", "s", "k">>

EthHeader == <<Str(TIMESTAMP_UTC), Str(BEST_BID), Str(BEST_ASK)>>

\* a ledger this program wrote earlier: its header and one row
EthOldRow == WriteRow(<<Str(Isoformat(0)), Float(0), Float(0)>>)

\* orderbook_snapshots.csv of the working directory when the program is
\* first started: absent, written by this program, or written by the
\* multi-symbol poller, which uses the same path
InitEth ==
    /\ peer = NoPeer
    /\ store = <<>>
    /\ local \in {NoFile, FileOf(WriteRow(EthHeader)),
                  FileOf(WriteRow(EthHeader) \o EthOldRow), FileOf(HeaderAndRow)}
    /\ wanted = <<ETH_USD>>
    /\ pc = "eth_main"
    /\ InitRun

\* ccxt.kraken(...) and load_markets(); an exception ends the process
EthLoadMarkets ==
    /\ pc = "eth_main"
    /\ \/ pc' = "eth_header" /\ UNCHANGED failedAt
       \/ Fail("load_markets")
    /\ UNCHANGED <<store, local, wanted, runs, runVars, history, peer>>

\* the header written to every file, present or not
EnsuredHeaderAlways(file) == FileOf(file.data \o WriteRow(EthHeader))

\* "if not os.path.isfile(CSV_PATH)": the file is created with the header
\* row; open(CSV_PATH, "x") with FileExistsError passed does the same
EnsuredHeader(file) ==
    IF ~file.exists THEN FileOf(WriteRow(EthHeader)) ELSE file

EthEnsureHeader ==
    /\ pc = "eth_header"
    /\ \/ /\ local' = EnsuredHeader(local)
          /\ steps' = Append(steps, "header")
          /\ pc' = "eth_fetch"
          /\ UNCHANGED failedAt
       \/ \* the file is absent and open() raises
          /\ ~local.exists
          /\ Fail("header")
          /\ UNCHANGED <<local, steps>>
    /\ UNCHANGED <<store, wanted, runs, remote_id, available, valid_symbols, skipped,
                   data_cols, responses, calls, storeOps, history, peer>>

\* exchange.fetch_order_book(PAIR, limit=1); nothing catches an exception
EthFetch ==
    /\ pc = "eth_fetch"
    /\ calls' = Append(calls, ETH_USD)
    /\ \E ob \in Responses(FetchPrices) :
          /\ responses' = Append(responses, ob)
          /\ IF ob.raised
             THEN Fail("fetch_order_book")
             ELSE pc' = "eth_append" /\ UNCHANGED failedAt
    /\ UNCHANGED <<store, local, wanted, runs, remote_id, available, valid_symbols,
                   skipped, data_cols, storeOps, steps, history, peer>>

\* 'if ob["bids"] and ob["asks"]'
BothSides(ob) == ob.bids # <<>> /\ ob.asks # <<>>

\* the file after open(CSV_PATH, "a") and writerow([ts, best_bid, best_ask])
EthAppended(file, ts, ob) ==
    FileOf(file.data
           \o WriteRow(<<Str(ts), Float(ob.bids[1][1]), Float(ob.asks[1][1])>>))

\* the row is appended when the book has both sides, else only a message
\* is printed
EthAppend ==
    /\ pc = "eth_append"
    /\ IF BothSides(responses[1])
       THEN \/ /\ local' = EthAppended(local, Isoformat(runs), responses[1])
               /\ steps' = Append(steps, "append")
               /\ pc' = "done"
               /\ okRuns' = okRuns + 1
               /\ UNCHANGED failedAt
            \/ \* open(CSV_PATH, "a") raises
               /\ Fail("append")
               /\ UNCHANGED <<local, steps, okRuns>>
       ELSE /\ pc' = "done"
            /\ okRuns' = okRuns + 1
            /\ UNCHANGED <<local, steps, failedAt>>
    /\ UNCHANGED <<store, wanted, runs, remote_id, available, valid_symbols, skipped,
                   data_cols, responses, calls, storeOps, store0, local0, storeInit,
                   localInit, peer>>

EthNextRun == StartNextRun("eth_main")

NextEth ==
    \/ EthLoadMarkets
    \/ EthEnsureHeader
    \/ EthFetch
    \/ EthAppend
    \/ EthNextRun

SpecEth == InitEth /\ [][NextEth]_vars

\* ------------------------------------------------------------------------
\* Vocabulary of the properties
\* ------------------------------------------------------------------------

\* the lines of a text, each with its terminator; an unterminated rest is
\* a line too
LineEnds(text) ==
    {i \in 1..Len(text) : text[i] = LF \/ i = Len(text)}

LinesOf(text) ==
    LET ends == LineEnds(text)
        EndOf(k) == CHOOSE i \in ends : Cardinality({j \in ends : j <= i}) = k
    IN  [k \in 1..Cardinality(ends) |->
            SubSeq(text, IF k = 1 THEN 1 ELSE EndOf(k - 1) + 1, EndOf(k))]

StartsWith(s, p) == Len(p) <= Len(s) /\ SubSeq(s, 1, Len(p)) = p

IsHeaderLine(line) == StartsWith(line, TIMESTAMP_UTC)

HasHeader(text) == LinesOf(text) # <<>> /\ IsHeaderLine(LinesOf(text)[1])

\* a data row written in run r: one terminated line whose first field is
\* the timestamp of that run
IsRowOfRun(line, r) ==
    /\ StartsWith(line, Isoformat(r) \o <<COMMA>>)
    /\ Len(line) >= 2
    /\ line[Len(line) - 1] = CR
    /\ line[Len(line)] = LF

IsPrefix(p, q) == Len(p) <= Len(q) /\ SubSeq(q, 1, Len(p)) = p

\* the object the lookup returns before the first run
InitLedgerId == FindRemoteFileId(storeInit, REMOTE_FILENAME, FOLDER_ID)

Has(seq, x) == \E i \in 1..Len(seq) : seq[i] = x

Writes(ops) == {i \in 1..Len(ops) : ops[i].op \in {"update", "create"}}

\* ------------------------------------------------------------------------
\* Properties
\* ------------------------------------------------------------------------

\* C1 (Sync idempotence): when the ledger object the lookup finds before the
\* first run holds a header and H data rows, then after k runs of
\* poll_and_sync.main have ended in success (k = 1, 2, ...; failed runs in
\* between count for nothing) that same object holds the old lines first and
\* unchanged, the same header line, and exactly H + k data rows.
C1_SyncIdempotence ==
    (InitLedgerId # NoId /\ HasHeader(GetMediaData(storeInit, InitLedgerId))) =>
        LET old == LinesOf(GetMediaData(storeInit, InitLedgerId))
            now == LinesOf(GetMediaData(store, InitLedgerId))
        IN  /\ Len(now) = Len(old) + okRuns
            /\ SubSeq(now, 1, Len(old)) = old
            /\ \A k \in (Len(old) + 1)..Len(now) : ~IsHeaderLine(now[k])

\* two successful runs on a ledger that had a header and one data row
C1_Witness ==
    /\ InitLedgerId # NoId
    /\ GetMediaData(storeInit, InitLedgerId) = HeaderAndRow
    /\ okRuns = 2
    /\ pc = "done"
    /\ Len(LinesOf(GetMediaData(store, InitLedgerId))) = 4

\* the symbol filter of the current run has run
Resolved == Has(steps, "resolve") \/ failedAt = "no_valid_symbols"

NoWantedAvailable == \A i \in 1..Len(wanted) : wanted[i] \notin available

\* C2 as stated (No-valid-symbols aborts before write): a run in which no
\* wanted symbol is available ends in failure with the local ledger file as
\* it was when the run started and without a remote create or update.
C2_LocalFileUntouched ==
    (Resolved /\ NoWantedAvailable) =>
        /\ pc = "failed"
        /\ failedAt = "no_valid_symbols"
        /\ local = local0
        /\ Writes(storeOps) = {}
        /\ store = store0

\* C2 as amended: a run of poll_and_sync.main in which no wanted symbol is
\* available ends in failure, appends no header and no row, and performs no
\* remote create or update; its local file is what the rehydration step
\* left: the copy of the remote object when the lookup found one, no file
\* otherwise.
C2_NoValidSymbolsAborts ==
    (Resolved /\ NoWantedAvailable) =>
        /\ pc = "failed"
        /\ failedAt = "no_valid_symbols"
        /\ ~Has(steps, "append")
        /\ calls = <<>>
        /\ local = (IF remote_id # NoId
                    THEN FileOf(GetMediaData(store0, remote_id))
                    ELSE NoFile)
        /\ Writes(storeOps) = {}
        /\ store = store0

\* the run aborted for want of symbols after the download replaced a stale
\* local file
C2_Witness ==
    /\ failedAt = "no_valid_symbols"
    /\ NoWantedAvailable
    /\ remote_id # NoId
    /\ local0 = FileOf(StaleText)
    /\ local # local0

\* C3 (Self-healing preserves data): when the ledger exists with K lines
\* and its first line does not begin with timestamp_utc, one append leaves
\* 1 + K + 1 lines: the header of this run's symbols, the K old lines
\* verbatim and in order, the new data row.
C3_SelfHealing ==
    (/\ pc = "done"
     /\ local0.exists
     /\ LinesOf(local0.data) # <<>>
     /\ ~IsHeaderLine(LinesOf(local0.data)[1])) =>
        LET old == LinesOf(local0.data)
            new == LinesOf(local.data)
            K == Len(old)
        IN  /\ Len(new) = 1 + K + 1
            /\ new[1] = WriteRow(Header(valid_symbols))
            /\ SubSeq(new, 2, K + 1) = old
            /\ IsRowOfRun(new[K + 2], runs)

\* C4 (Header idempotence): N successive appends to a ledger that was
\* absent, whatever values were absent, leave one header line, as the first
\* line, followed by N data lines in the order of the appends.
C4_HeaderIdempotence ==
    (localInit = NoFile /\ pc = "done" /\ okRuns = runs) =>
        LET lines == LinesOf(local.data)
        IN  /\ Len(lines) = runs + 1
            /\ IsHeaderLine(lines[1])
            /\ runs = 1 => lines[1] = WriteRow(Header(valid_symbols))
            /\ \A k \in 1..runs :
                  IsRowOfRun(lines[k + 1], k) /\ ~IsHeaderLine(lines[k + 1])

\* two appends to an absent ledger, the second with absent values
C4_Witness ==
    /\ localInit = NoFile
    /\ pc = "done"
    /\ okRuns = runs
    /\ runs = 2
    /\ \E i \in 1..Len(data_cols) : data_cols[i][1] = None /\ data_cols[i][2] # None
    /\ Len(LinesOf(local.data)) = 3

\* the steps of the protocol, in its order
StepsInOrder ==
    \/ Len(steps) = 0
    \/ /\ steps[1] = "lookup"
       /\ Len(steps) >= 2 => steps[2] = (IF remote_id # NoId THEN "download" ELSE "remove")
       /\ Len(steps) >= 3 => steps[3] = "resolve"
       /\ Len(steps) >= 4 => steps[4] = "append"
       /\ Len(steps) >= 5 => steps[5] = "upload"
       /\ Len(steps) <= 5

\* C5 (Every sync step's failure is fatal): a run of poll_and_sync.main in
\* which the lookup, the download, the append or the upload fails ends in
\* failure at that step; no later step of lookup -> download/delete ->
\* append -> upload has run, and nothing was uploaded.
C5_StepFailureIsFatal ==
    /\ StepsInOrder
    /\ (failedAt # "") <=> (pc = "failed")
    /\ failedAt = "lookup" =>
          steps = <<>> /\ local = local0 /\ calls = <<>>
    /\ failedAt = "download" =>
          steps = <<"lookup">> /\ calls = <<>> /\ valid_symbols = <<>>
    /\ failedAt = "append" =>
          Len(steps) = 3 /\ ~Has(steps, "append") /\ ~Has(steps, "upload")
    /\ failedAt = "upload" =>
          Len(steps) = 4 /\ ~Has(steps, "upload")
    /\ failedAt # "" => store = store0 /\ Writes(storeOps) = {}

\* a run that failed in the download after the file was truncated
C5_Witness ==
    /\ failedAt = "download"
    /\ pc = "failed"
    /\ local = FileOf(<<>>)
    /\ local0 = FileOf(StaleText)

\* C6 (Rehydration step): whatever the local file was, when the append step
\* starts the local file holds the content of the object the lookup found,
\* and there is no local file when the lookup found none.
C6_Rehydration ==
    pc = "append" =>
        /\ remote_id = FindRemoteFileId(store, REMOTE_FILENAME, FOLDER_ID)
        /\ remote_id # NoId => local = FileOf(GetMediaData(store, remote_id))
        /\ remote_id = NoId => local = NoFile

\* the append is about to start on a download that replaced a stale file
C6_Witness ==
    /\ pc = "append"
    /\ remote_id # NoId
    /\ local0 = FileOf(StaleText)
    /\ local.data = HeaderAndRow

Ids(st) == {st[i].id : i \in 1..Len(st)}

\* C7 (Create versus update): a successful run has updated in place the
\* object the lookup of that run returned (every object keeps its identity,
\* none is added) or, when the lookup found none, has created exactly one
\* object named orderbook_snapshots.csv in the target folder.
C7_CreateVersusUpdate ==
    pc = "done" =>
        /\ remote_id = FindRemoteFileId(store0, REMOTE_FILENAME, FOLDER_ID)
        /\ Cardinality(Writes(storeOps)) = 1
        /\ remote_id # NoId =>
              /\ Len(store) = Len(store0)
              /\ \A i \in 1..Len(store0) :
                    store[i] = IF store0[i].id = remote_id
                               THEN [store0[i] EXCEPT !.data = local.data]
                               ELSE store0[i]
              /\ storeOps[Len(storeOps)] = [op |-> "update", id |-> remote_id]
        /\ remote_id = NoId =>
              /\ Len(store) = Len(store0) + 1
              /\ SubSeq(store, 1, Len(store0)) = store0
              /\ LET new == store[Len(store)]
                 IN  /\ new.name = REMOTE_FILENAME
                     /\ new.parents = {FOLDER_ID}
                     /\ ~new.trashed
                     /\ new.data = local.data
                     /\ new.id \notin Ids(store0)
                     /\ storeOps[Len(storeOps)] = [op |-> "create", id |-> new.id]

\* the second run updates the object the first run created next to decoys
C7_Witness ==
    /\ pc = "done"
    /\ runs = 2
    /\ okRuns = 2
    /\ storeInit # <<>>
    /\ InitLedgerId = NoId
    /\ remote_id = Len(storeInit) + 1

LfCount(text) == Cardinality({i \in 1..Len(text) : text[i] = LF})

\* C8 (Failed upload after a successful append): the run ends in failure,
\* the Drive is as it was before the run, and the local file holds the
\* downloaded content (the header of this run when nothing was found)
\* followed by the one row of this run.
C8_FailedUpload ==
    failedAt = "upload" =>
        /\ pc = "failed"
        /\ store = store0
        /\ local.exists
        /\ LET base == IF remote_id # NoId
                       THEN GetMediaData(store0, remote_id)
                       ELSE WriteRow(Header(valid_symbols))
               rest == SubSeq(local.data, Len(base) + 1, Len(local.data))
           IN  /\ IsPrefix(base, local.data)
               /\ IsRowOfRun(rest, runs)
               /\ LfCount(rest) = 1

\* the upload failed in a run that had downloaded a ledger
C8_Witness ==
    /\ failedAt = "upload"
    /\ remote_id # NoId
    /\ GetMediaData(store, remote_id) = HeaderAndRow
    /\ Len(LinesOf(local.data)) = 3

Rank(S, i) == Cardinality({j \in S : j <= i})

ValidIdx == {i \in 1..Len(wanted) : wanted[i] \in available}

SkippedIdx == (1..Len(wanted)) \ ValidIdx

\* C9 (Symbol resolution): the valid list is the subsequence of wanted of
\* the symbols that are in available, in wanted's order, repeated symbols
\* repeated; the other wanted symbols are the ones reported as skipped.
C9_SymbolResolution ==
    Resolved =>
        /\ Len(valid_symbols) = Cardinality(ValidIdx)
        /\ \A i \in ValidIdx : valid_symbols[Rank(ValidIdx, i)] = wanted[i]
        /\ Len(skipped) = Cardinality(SkippedIdx)
        /\ \A i \in SkippedIdx : skipped[Rank(SkippedIdx, i)] = wanted[i]

\* a wanted list with a repeated listed symbol and an unlisted one, the
\* listing holding a near miss
C9_Witness ==
    /\ Resolved
    /\ wanted = <<WBTC_USDT, SUI_USDT, WBTC_USDT>>
    /\ available = {WBTC_USDT, Replace(SUI_USDT, "/", "_")}
    /\ valid_symbols = <<WBTC_USDT, WBTC_USDT>>
    /\ skipped = <<SUI_USDT>>

\* C10 (Batch failure isolation): the fetch loop calls the provider once a
\* symbol, in list order; entry i of the quotes is the answer to the call
\* for symbol i, (None, None) when that call raised; a raised call ends
\* neither the loop nor the run, which goes on to the append.
C10_BatchFailureIsolation ==
    /\ Len(responses) = Len(calls)
    /\ Len(data_cols) = Len(calls)
    /\ Len(calls) <= Len(valid_symbols)
    /\ calls = SubSeq(valid_symbols, 1, Len(calls))
    /\ \A i \in 1..Len(data_cols) :
          /\ responses[i].raised => data_cols[i] = <<None, None>>
          /\ (~responses[i].raised /\ responses[i].bids # <<>>) =>
                data_cols[i][1] = Float(responses[i].bids[1][1])
    /\ pc = "fetch" => Len(calls) < Len(valid_symbols)
    /\ (pc \in {"append", "upload", "done"} \/ failedAt \in {"append", "upload"}) =>
          calls = valid_symbols
    /\ (pc = "failed" /\ calls # <<>>) => failedAt \in {"append", "upload"}

\* every call of the run raised and the row was appended all the same
C10_Witness ==
    /\ Len(valid_symbols) = 2
    /\ Len(responses) = 2
    /\ \A i \in 1..Len(responses) : responses[i].raised
    /\ Has(steps, "append")
    /\ remote_id # NoId
    /\ Len(LinesOf(local.data)) = Len(LinesOf(GetMediaData(store0, remote_id))) + 1

\* ------------------------------------------------------------------------
\* C11
\* ------------------------------------------------------------------------

\* C11: for every answer of the provider the bid of the returned pair is
\* present exactly when the answer has at least one bid level, and is then
\* the price of its first level; the same for the ask, whatever the other
\* side holds. A call that raises has no levels and yields (None, None).
C11_PartialQuoteIndependence ==
    /\ Len(data_cols) = Len(responses)
    /\ \A i \in 1..Len(data_cols) :
          LET ob == responses[i]
              quote == data_cols[i]
          IN  /\ (quote[1] # None) <=> (ob.bids # <<>>)
              /\ (quote[2] # None) <=> (ob.asks # <<>>)
              /\ ob.bids # <<>> => quote[1] = Float(ob.bids[1][1])
              /\ ob.asks # <<>> => quote[2] = Float(ob.asks[1][1])

\* a run of two symbols met a book with bids only and a book with asks only
C11_Witness ==
    /\ pc = "done"
    /\ Len(data_cols) = 2
    /\ responses[1].bids # <<>> /\ responses[1].asks = <<>>
    /\ data_cols[1] = <<Float(responses[1].bids[1][1]), None>>
    /\ responses[2].bids = <<>> /\ responses[2].asks # <<>>
    /\ data_cols[2] = <<None, Float(responses[2].asks[1][1])>>

\* ------------------------------------------------------------------------
\* C12
\* ------------------------------------------------------------------------

CredentialFailures == {"sa_json_not_set", "sa_json_parse"}

\* C12: a run whose credential is not set or does not parse ends in failure
\* at get_drive_service: it has sent no request to the store (no lookup,
\* download, update or create), the store is as it was, and the local
\* ledger is neither created nor modified. No request is sent before the
\* credential has been resolved.
C12_CredentialFailureIsFatal ==
    /\ failedAt \in CredentialFailures =>
          /\ pc = "failed"
          /\ storeOps = <<>>
          /\ steps = <<>>
          /\ store = store0
          /\ local = local0
    /\ pc \in {"main", "get_drive_service"} => storeOps = <<>> /\ local = local0

\* the second run finds the credential unparsable after a first run that
\* created the remote ledger
C12_Witness ==
    /\ failedAt = "sa_json_parse"
    /\ runs = 2
    /\ okRuns = 1
    /\ storeInit = <<>>
    /\ store # <<>>
    /\ local.exists

\* ------------------------------------------------------------------------
\* C13
\* ------------------------------------------------------------------------

\* C13: when the service credential is not configured or cannot be
\* resolved the resolver goes on to the cached user credential and then to
\* the interactive flow: no run ends at the service credential. The code
\* has that one strategy only and exits when it fails, so this is violated.
C13_CredentialFallback ==
    pc = "failed" => failedAt \notin CredentialFailures

\* ------------------------------------------------------------------------
\* C14
\* ------------------------------------------------------------------------

\* a line without its terminator
Chomp(line) ==
    IF Len(line) >= 2 /\ line[Len(line) - 1] = CR /\ line[Len(line)] = LF
    THEN SubSeq(line, 1, Len(line) - 2)
    ELSE IF Len(line) >= 1 /\ line[Len(line)] = LF
    THEN SubSeq(line, 1, Len(line) - 1)
    ELSE line

\* the commas of a record that stand outside quotes
Separators(s) ==
    {i \in 1..Len(s) :
        /\ s[i] = COMMA
        /\ Cardinality({j \in 1..(i - 1) : s[j] = DQUOTE}) % 2 = 0}

RECURSIVE Undoubled(_)
Undoubled(s) ==
    IF s = <<>> THEN <<>>
    ELSE IF Len(s) >= 2 /\ s[1] = DQUOTE /\ s[2] = DQUOTE
    THEN <<DQUOTE>> \o Undoubled(SubSeq(s, 3, Len(s)))
    ELSE <<Head(s)>> \o Undoubled(Tail(s))

Unquoted(f) ==
    IF Len(f) >= 2 /\ f[1] = DQUOTE /\ f[Len(f)] = DQUOTE
    THEN Undoubled(SubSeq(f, 2, Len(f) - 1))
    ELSE f

\* the fields a csv reader finds in a line
FieldsOf(line) ==
    LET s == Chomp(line)
        seps == Separators(s)
        SepAt(k) == CHOOSE i \in seps : Cardinality({j \in seps : j <= i}) = k
        n == Cardinality(seps) + 1
    IN  [k \in 1..n |->
            Unquoted(SubSeq(s, IF k = 1 THEN 1 ELSE SepAt(k - 1) + 1,
                               IF k = n THEN Len(s) ELSE SepAt(k) - 1))]

\* the text the row shows for one side of a quote
SideText(side) == IF side = None THEN <<>> ELSE FloatStr(side.val)

LastLine(text) == LinesOf(text)[Len(LinesOf(text))]

\* C14: after an append for n symbols the data row has 1 + 2n fields, the
\* timestamp and then the bid and the ask of each symbol in the order of
\* the symbol list; a header written by this append has 1 + 2n columns,
\* timestamp_utc and then <SYM>_bid, <SYM>_ask per symbol in the same order
\* with "/" replaced by "_".
C14_RowHeaderAlignment ==
    pc = "done" =>
        LET n == Len(valid_symbols)
            row == FieldsOf(LastLine(local.data))
            header == FieldsOf(LinesOf(local.data)[1])
        IN  /\ Len(data_cols) = n
            /\ Len(row) = 1 + 2 * n
            /\ row[1] = Isoformat(runs)
            /\ \A k \in 1..n :
                  /\ row[2 * k] = SideText(data_cols[k][1])
                  /\ row[2 * k + 1] = SideText(data_cols[k][2])
            /\ ~local0.exists =>
                  /\ Len(LinesOf(local.data)) = 2
                  /\ Len(header) = 1 + 2 * n
                  /\ header[1] = TIMESTAMP_UTC
                  /\ \A k \in 1..n :
                        LET base == Replace(valid_symbols[k], "/", "_")
                        IN  /\ header[2 * k] = base \o BID_SUFFIX
                            /\ header[2 * k + 1] = base \o ASK_SUFFIX
                            /\ ~Has(base, "/")

\* header and row were written for two symbols whose four sides all differ
\* in presence or price
C14_Witness ==
    /\ pc = "done"
    /\ ~local0.exists
    /\ Len(valid_symbols) = 2
    /\ data_cols = <<<<Float(0), None>>, <<Float(1), Float(0)>>>>
    /\ FieldsOf(LastLine(local.data))
         = <<Isoformat(1), FloatStr(0), <<>>, FloatStr(1), FloatStr(0)>>

\* ------------------------------------------------------------------------
\* C15
\* ------------------------------------------------------------------------

\* C15: in every written row the field of a side is the empty string
\* exactly when that side of the quote is absent; a side that is present
\* with the price zero is written as the non-empty text 0.0.
C15_AbsentAndZeroDistinct ==
    pc = "done" =>
        LET row == FieldsOf(LastLine(local.data))
        IN  \A k \in 1..Len(data_cols) :
               /\ (row[2 * k] = <<>>) <=> (responses[k].bids = <<>>)
               /\ (row[2 * k + 1] = <<>>) <=> (responses[k].asks = <<>>)
               /\ (responses[k].bids # <<>> /\ responses[k].bids[1][1] = 0)
                     => row[2 * k] = <<"0", ".", "0">>
               /\ (responses[k].asks # <<>> /\ responses[k].asks[1][1] = 0)
                     => row[2 * k + 1] = <<"0", ".", "0">>

\* one row holds a bid of zero next to an absent ask
C15_Witness ==
    /\ pc = "done"
    /\ Len(data_cols) = 1
    /\ responses[1].bids = <<<<0, 1>>>>
    /\ responses[1].asks = <<>>
    /\ FieldsOf(LastLine(local.data)) = <<Isoformat(1), <<"0", ".", "0">>, <<>>>>

\* ------------------------------------------------------------------------
\* C16
\* ------------------------------------------------------------------------

\* the data rows of a ledger text
DataRows(text) ==
    Cardinality({k \in 1..Len(LinesOf(text)) : ~IsHeaderLine(LinesOf(text)[k])})

\* the remote ledger as the lookup finds it
RemoteLedger(st) ==
    GetMediaData(st, FindRemoteFileId(st, REMOTE_FILENAME, FOLDER_ID))

\* the remote ledger before the first run, empty when there was none
InitLedger == IF InitLedgerId = NoId THEN <<>> ELSE RemoteLedger(storeInit)

BothRunsSucceeded == pc = "done" /\ peer.pc = "done" /\ okRuns = 2

\* C16: when two interleaved runs have both completed successfully the
\* remote ledger is the local file of one of them, the upload that came
\* last: it extends the ledger of before the runs by one row or by two,
\* so with H rows before it holds H + 1 or H + 2 and a row can be lost.
C16_RaceOutcome ==
    BothRunsSucceeded =>
        /\ RemoteLedger(store) \in {local.data, peer.local.data}
        /\ InitLedgerId # NoId => IsPrefix(InitLedger, RemoteLedger(store))
        /\ DataRows(RemoteLedger(store)) - DataRows(InitLedger) \in {1, 2}
        /\ DataRows(local.data) - DataRows(InitLedger) \in {1, 2}
        /\ DataRows(peer.local.data) - DataRows(InitLedger) \in {1, 2}

\* both runs completed successfully on a ledger of H rows and the remote
\* ledger holds H + 1 rows: the row of one run is lost
C16_Witness ==
    /\ BothRunsSucceeded
    /\ InitLedgerId # NoId
    /\ DataRows(RemoteLedger(store)) = DataRows(InitLedger) + 1
    /\ DataRows(RemoteLedger(store)) < DataRows(InitLedger) + 2

\* ------------------------------------------------------------------------
\* C17
\* ------------------------------------------------------------------------

\* the local ledger as the append of this run found it: the download
Rehydrated == GetMediaData(store0, remote_id)

\* C17: when the local ledger exists and its first line begins with
\* timestamp_utc, the append adds exactly one line, the row of this run, at
\* the end; the old content is a prefix of the new content and the first
\* line stays as it was, whatever symbol list this run resolved.
C17_AppendOnly ==
    (Has(steps, "append") /\ remote_id # NoId /\ HasHeader(Rehydrated)) =>
        /\ IsPrefix(Rehydrated, local.data)
        /\ local.data = Rehydrated \o LastLine(local.data)
        /\ IsRowOfRun(LastLine(local.data), runs)
        /\ Len(LinesOf(local.data)) = Len(LinesOf(Rehydrated)) + 1
        /\ LinesOf(local.data)[1] = LinesOf(Rehydrated)[1]

\* a row for one symbol was appended under a header built for two
C17_Witness ==
    /\ Has(steps, "append")
    /\ remote_id # NoId
    /\ HasHeader(Rehydrated)
    /\ LinesOf(Rehydrated)[1] = WriteRow(Header(TrackedSymbols))
    /\ valid_symbols = <<TrackedSymbols[2]>>
    /\ LinesOf(local.data)[1] # WriteRow(Header(valid_symbols))
    /\ Len(FieldsOf(LastLine(local.data))) = 3

\* ------------------------------------------------------------------------
\* C18
\* ------------------------------------------------------------------------

\* the objects the lookup of the ledger matches
LedgerObjects(st) == FilesList(st, REMOTE_FILENAME, FOLDER_ID)

\* C18: when the folder held at most one object of the ledger's name that
\* is not trashed before the first run, it holds at most one after any
\* sequence of runs that follow one another; once such an object exists,
\* every later successful run updates that object: its id stays the id of
\* the ledger, and the one write of the run is an update of it.
C18_NoDuplicateLedgers ==
    Len(LedgerObjects(storeInit)) <= 1 =>
        /\ Len(LedgerObjects(store)) <= 1
        /\ Len(LedgerObjects(store0)) <= 1
        /\ LedgerObjects(store0) # <<>> =>
              /\ LedgerObjects(store) # <<>>
              /\ LedgerObjects(store)[1].id = LedgerObjects(store0)[1].id
              /\ pc = "done" =>
                    /\ Writes(storeOps) # {}
                    /\ \A i \in Writes(storeOps) :
                          storeOps[i] = [op |-> "update",
                                         id |-> LedgerObjects(store0)[1].id]
                    /\ Len(store) = Len(store0)

\* the first run created the ledger among the decoys and the second run
\* updated that object
C18_Witness ==
    /\ storeInit = WithIds(Decoys)
    /\ runs = 2
    /\ okRuns = 2
    /\ pc = "done"
    /\ Len(LedgerObjects(store)) = 1
    /\ LedgerObjects(store0) # <<>>
    /\ Has(storeOps, [op |-> "update", id |-> LedgerObjects(store0)[1].id])
    /\ Len(store) = Len(storeInit) + 1

\* ------------------------------------------------------------------------
\* C19
\* ------------------------------------------------------------------------

\* C19: when a run has ended in success the remote ledger holds the text
\* of the local ledger file, in the object the upload wrote; in every
\* other state of a run, a failure before or in the upload included,
\* the store is as it was when the run started: the upload is the one
\* step that modifies it.
C19_LocalRemoteAgree ==
    /\ pc = "done" =>
          /\ local.exists
          /\ RemoteLedger(store) = local.data
          /\ \A i \in Writes(storeOps) : GetMediaData(store, storeOps[i].id) = local.data
          /\ Cardinality(Writes(storeOps)) = 1
    /\ pc # "done" => store = store0 /\ Writes(storeOps) = {}

\* a second successful run left local file and remote ledger equal, with
\* the rows of both runs
C19_Witness ==
    /\ pc = "done"
    /\ runs = 2
    /\ okRuns = 2
    /\ store # store0
    /\ RemoteLedger(store) = local.data
    /\ IsRowOfRun(LastLine(local.data), 2)
    /\ Len(LinesOf(local.data)) >= 3

\* ------------------------------------------------------------------------
\* C20
\* ------------------------------------------------------------------------

\* a ledger of the single-pair poller: the header line first and once,
\* then rows of three fields none of which is empty
IsEthLedger(text) ==
    LET lines == LinesOf(text)
    IN  /\ lines # <<>>
        /\ lines[1] = WriteRow(EthHeader)
        /\ \A k \in 2..Len(lines) :
              /\ ~IsHeaderLine(lines[k])
              /\ Len(FieldsOf(lines[k])) = 3
              /\ \A j \in 1..3 : FieldsOf(lines[k])[j] # <<>>

\* the file once the header step of this run is through
EthBefore == IF local0.exists THEN local0.data ELSE WriteRow(EthHeader)

====
